---- MODULE Spec2Model ----
(***************************************************************************)
(* ORDER BY lowering of core/translate/order_by.rs: init_order_by,         *)
(* order_by_sorter_insert, emit_order_by, sorter_insert and                *)
(* order_by_deduplicate_result_columns, together with an interpreter for   *)
(* the drain loop that emit_order_by emits.                                *)
(*                                                                         *)
(* Conventions: Option<T> is a sequence of length at most one (<<>> is     *)
(* None, <<x>> is Some(x)); Vec indices, register numbers, cursor ids and  *)
(* layout indices are 0-based as in the source; instruction offsets and    *)
(* label ids are positions in the sequences insns and labels.             *)
(***************************************************************************)
EXTENDS Integers, Sequences, FiniteSets, TLC

MaxKeys == 2
MaxCols == 2
MaxFeeds == 2
MaxRows == 5
MaxOffset == 2
MaxLimit == 2

VARIABLES order_by, result_columns, distinctness, limit, offset, nrows,
          pc, feeds, result,
          insns, labels, cursors, next_free_register,
          meta_sort, result_column_indexes_in_orderby_sorter,
          result_columns_to_skip_in_orderby_sorter,
          reg_result_cols_start, reg_offset, reg_limit,
          vpc, registers, sorter_row, output, fetched, decoded,
          advances, iterations

plan_vars == <<order_by, result_columns, distinctness, limit, offset, nrows>>
builder_vars == <<insns, labels, cursors, next_free_register>>
ctx_vars == <<meta_sort, result_column_indexes_in_orderby_sorter,
              result_columns_to_skip_in_orderby_sorter,
              reg_result_cols_start, reg_offset, reg_limit>>
vm_vars == <<vpc, registers, sorter_row, output, fetched, decoded,
             advances, iterations>>
vars == <<plan_vars, pc, feeds, result, builder_vars, ctx_vars, vm_vars>>

Min(a, b) == IF a < b THEN a ELSE b

(***************************************************************************)
(* Expressions (ast::Expr).  Only the variants init_order_by distinguishes *)
(* are kept: a column reference, a COLLATE-annotated expression and        *)
(* everything else (here a function call).                                 *)
(***************************************************************************)
ColumnExpr(t, c) == [kind |-> "Column", table |-> t, column |-> c, name |-> ""]
CollateExpr(e, n) == [kind |-> "Collate", table |-> e.table, column |-> e.column, name |-> n]
FunctionExpr(n, e) == [kind |-> "Function", table |-> e.table, column |-> e.column, name |-> n]
NoExpr == [kind |-> "", table |-> 0, column |-> 0, name |-> ""]

\* The one table of the query: column 0 (name) declares no collation,
\* column 1 (price) declares NOCASE.  Position 2 does not exist.
referenced_tables == [t \in {1} |-> << <<>>, <<"NOCASE">> >>]

ExprName == ColumnExpr(1, 0)
ExprPrice == ColumnExpr(1, 1)
ExprOutOfBounds == ColumnExpr(1, 2)
ExprPriceRtrim == CollateExpr(ExprPrice, "RTRIM")
ExprNameBogus == CollateExpr(ExprName, "BOGUS")
ExprUpperName == FunctionExpr("upper", ExprName)

SortKeyExprs == {ExprName, ExprPrice, ExprOutOfBounds, ExprPriceRtrim,
                 ExprNameBogus, ExprUpperName}
ResultExprs == {ExprName, ExprPrice, ExprUpperName}
SortOrder == {"Asc", "Desc"}

\* util::exprs_are_equivalent: structural identity of the two trees.
exprs_are_equivalent(e1, e2) == e1 = e2

(***************************************************************************)
(* Result<T>: ok with a value, or an error.                                *)
(***************************************************************************)
Ok(v) == [ok |-> TRUE, val |-> v, err |-> ""]
Err(e) == [ok |-> FALSE, val |-> <<>>, err |-> e]

\* CollationSeq::new: the registry of collation names.
RegisteredCollations == {"BINARY", "NOCASE", "RTRIM"}
CollationSeqNew(collation_name) ==
    IF collation_name \in RegisteredCollations
    THEN Ok(collation_name) ELSE Err("UnknownCollation")
CollationSeqDefault == "BINARY"

(***************************************************************************)
(* Instructions (vdbe::insn::Insn), one record shape for all of them.      *)
(***************************************************************************)
Insn(op, p1, p2, p3) ==
    [op |-> op, p1 |-> p1, p2 |-> p2, p3 |-> p3,
     order |-> <<>>, collations |-> <<>>, expr |-> NoExpr]
SorterOpen(cursor_id, columns, order, collations) ==
    [op |-> "SorterOpen", p1 |-> cursor_id, p2 |-> columns, p3 |-> 0,
     order |-> order, collations |-> collations, expr |-> NoExpr]
OpenPseudo(cursor_id, content_reg, num_fields) ==
    Insn("OpenPseudo", cursor_id, content_reg, num_fields)
SorterSort(cursor_id, pc_if_empty) == Insn("SorterSort", cursor_id, pc_if_empty, 0)
SorterData(cursor_id, dest_reg, pseudo_cursor) ==
    Insn("SorterData", cursor_id, dest_reg, pseudo_cursor)
SorterNext(cursor_id, pc_if_next) == Insn("SorterNext", cursor_id, pc_if_next, 0)
MakeRecord(start_reg, count, dest_reg) == Insn("MakeRecord", start_reg, count, dest_reg)
SorterInsert(cursor_id, record_reg) == Insn("SorterInsert", cursor_id, record_reg, 0)
IfPos(reg, target_pc, decrement_by) == Insn("IfPos", reg, target_pc, decrement_by)
ResultRow(start_reg, count) == Insn("ResultRow", start_reg, count, 0)
DecrJumpZero(reg, target_pc) == Insn("DecrJumpZero", reg, target_pc, 0)
\* program.emit_column(cursor_id, column, out)
emit_column(cursor_id, column, out) == Insn("Column", cursor_id, column, out)
\* translate_expr(program, tables, expr, target_register, resolver): the
\* code that leaves the value of expr in target_register.  An error of the
\* expression compiler aborts the translation of the statement; only its
\* successful outcome is kept here.
translate_expr(expr, target_register) ==
    [op |-> "Expr", p1 |-> target_register, p2 |-> 0, p3 |-> 0,
     order |-> <<>>, collations |-> <<>>, expr |-> expr]
\* DistinctCtx::emit_deduplication_insns(program, num_regs, start_reg)
emit_deduplication_insns(num_regs, start_reg) ==
    <<Insn("DistinctCheck", start_reg, num_regs, 0)>>

SorterCursor == [type |-> "Sorter", column_count |-> 0]
PseudoCursor(column_count) == [type |-> "Pseudo", column_count |-> column_count]

(***************************************************************************)
(* init_order_by                                                           *)
(***************************************************************************)
\* Variant of KeyCollation in which the column's declared collation takes
\* precedence over a COLLATE annotation.
KeyCollation_ColumnFirst(expr) ==
    IF expr.kind \in {"Column", "Collate"}
         /\ expr.column < Len(referenced_tables[expr.table])
         /\ referenced_tables[expr.table][expr.column + 1] # <<>>
    THEN Ok(referenced_tables[expr.table][expr.column + 1])
    ELSE IF expr.kind = "Collate"
    THEN LET r == CollationSeqNew(expr.name)
         IN  IF r.ok THEN Ok(<<r.val>>) ELSE r
    ELSE IF expr.kind = "Column"
    THEN LET table == referenced_tables[expr.table]
         IN  IF expr.column < Len(table)
             THEN Ok(table[expr.column + 1])
             ELSE Err("ColumnIndexOutOfBounds")
    ELSE Ok(<<CollationSeqDefault>>)

\* The closure of lines 52-64: the collation of one sort key.  Every column
\* reference names a table of referenced_tables, so find_table_by_internal_id
\* succeeds.
KeyCollation(expr) ==
    IF expr.kind = "Collate"
    THEN LET r == CollationSeqNew(expr.name)
         IN  IF r.ok THEN Ok(<<r.val>>) ELSE r
    ELSE IF expr.kind = "Column"
    THEN LET table == referenced_tables[expr.table]
         IN  IF expr.column < Len(table)
             THEN Ok(table[expr.column + 1])
             ELSE Err("ColumnIndexOutOfBounds")
    ELSE Ok(<<CollationSeqDefault>>)

\* Variant of CollectCollations that resolves every key and reports the
\* last error instead of stopping at the first.
RECURSIVE CollectCollations_LastError(_, _, _)
CollectCollations_LastError(keys, k, acc) ==
    IF k > Len(keys) THEN Ok(acc)
    ELSE LET r == KeyCollation(keys[k].expr)
             rest == CollectCollations_LastError(keys, k + 1,
                        IF r.ok THEN Append(acc, r.val) ELSE acc)
         IN  IF r.ok \/ ~rest.ok THEN rest ELSE r

\* .collect::<Result<Vec<_>>>()?: keys are resolved in ORDER BY order and
\* the first error ends the iteration.
RECURSIVE CollectCollations(_, _, _)
CollectCollations(keys, k, acc) ==
    IF k > Len(keys) THEN Ok(acc)
    ELSE LET r == KeyCollation(keys[k].expr)
         IN  IF r.ok THEN CollectCollations(keys, k + 1, Append(acc, r.val))
             ELSE r

SortDirections(keys) == [k \in 1..Len(keys) |-> keys[k].dir]

init_order_by ==
    /\ pc = "start"
    /\ LET sort_cursor == Len(cursors)
           collations == CollectCollations(order_by, 1, <<>>)
       IN  /\ cursors' = Append(cursors, SorterCursor)
           /\ meta_sort' = <<[sort_cursor |-> sort_cursor,
                              reg_sorter_data |-> next_free_register]>>
           /\ next_free_register' = next_free_register + 1
           /\ IF collations.ok
              THEN /\ insns' = Append(insns, SorterOpen(sort_cursor, Len(order_by),
                                        SortDirections(order_by), collations.val))
                   /\ result' = "Ok"
                   /\ pc' = "inited"
              ELSE /\ insns' = insns
                   /\ result' = collations.err
                   /\ pc' = "error"
    /\ UNCHANGED <<plan_vars, feeds, labels, vm_vars,
                   result_column_indexes_in_orderby_sorter,
                   result_columns_to_skip_in_orderby_sorter,
                   reg_result_cols_start, reg_offset, reg_limit>>

(***************************************************************************)
(* order_by_deduplicate_result_columns                                     *)
(***************************************************************************)
\* order_by.iter().enumerate().find(|..| exprs_are_equivalent(expr, &rc.expr)):
\* the index of the first equivalent sort key, if any.
\* Variant of FindSortKey that binds to the last equivalent sort key.
RECURSIVE FindSortKey_LastMatch(_, _, _)
FindSortKey_LastMatch(keys, expr, j) ==
    IF j >= Len(keys) THEN <<>>
    ELSE LET later == FindSortKey_LastMatch(keys, expr, j + 1)
         IN  IF later # <<>> THEN later
             ELSE IF exprs_are_equivalent(keys[j + 1].expr, expr) THEN <<j>>
             ELSE <<>>

RECURSIVE FindSortKey(_, _, _)
FindSortKey(keys, expr, j) ==
    IF j >= Len(keys) THEN <<>>
    ELSE IF exprs_are_equivalent(keys[j + 1].expr, expr) THEN <<j>>
    ELSE FindSortKey(keys, expr, j + 1)

RECURSIVE DeduplicateFrom(_, _, _, _)
DeduplicateFrom(keys, cols, i, result_column_remapping) ==
    IF i >= Len(cols) THEN result_column_remapping
    ELSE LET found == FindSortKey(keys, cols[i + 1], 0)
         IN  IF found # <<>>
             THEN IF result_column_remapping # <<>>
                  THEN DeduplicateFrom(keys, cols, i + 1,
                         <<Append(result_column_remapping[1], <<i, found[1]>>)>>)
                  ELSE DeduplicateFrom(keys, cols, i + 1, << <<<<i, found[1]>>>> >>)
             ELSE DeduplicateFrom(keys, cols, i + 1, result_column_remapping)

order_by_deduplicate_result_columns(keys, cols) == DeduplicateFrom(keys, cols, 0, <<>>)

\* .as_ref().map(|v| v.len()).unwrap_or(0)
OptionLen(opt) == IF opt = <<>> THEN 0 ELSE Len(opt[1])

(***************************************************************************)
(* order_by_sorter_insert and sorter_insert                                *)
(***************************************************************************)
\* Vec::insert(index, element): shifts everything from index on to the
\* right.  It panics when index > len, which the callers below never do.
VecInsert(v, index, element) ==
    SubSeq(v, 1, index) \o <<element>> \o SubSeq(v, index + 1, Len(v))

\* v.iter().find(|(skipped_idx, _)| *skipped_idx == i)
RECURSIVE FindSkipped(_, _, _)
FindSkipped(v, i, n) ==
    IF n > Len(v) THEN <<>>
    ELSE IF v[n][1] = i THEN <<v[n]>>
    ELSE FindSkipped(v, i, n + 1)

OrderbySorterColumnCount(order_by_len, result_columns_len, result_columns_to_skip_len) ==
    order_by_len + result_columns_len - result_columns_to_skip_len

\* Variant of DistinctNumRegs that counts every result column, skipped or not.
DistinctNumRegs_AllColumns(order_by_len, translated_result_col_count) ==
    order_by_len + Len(result_columns)

DistinctNumRegs(order_by_len, translated_result_col_count) ==
    order_by_len + translated_result_col_count

sorter_insert(start_reg, column_count, cursor_id, record_reg) ==
    <<MakeRecord(start_reg, column_count, record_reg),
      SorterInsert(cursor_id, record_reg)>>

\* for (i, (expr, _)) in order_by.iter().enumerate()
SortKeyInsns(keys, start_reg) ==
    [k \in 1..Len(keys) |-> translate_expr(keys[k].expr, start_reg + (k - 1))]

\* for (i, rc) in result_columns.iter().enumerate(): st carries the
\* instructions emitted so far, res_col_indexes_in_orderby_sorter, cur_reg,
\* cur_idx_in_orderby_sorter and translated_result_col_count.
RECURSIVE FeedResultColumns(_, _, _, _)
FeedResultColumns(cols, result_columns_to_skip, i, st) ==
    IF i >= Len(cols) THEN st
    ELSE LET found == IF result_columns_to_skip # <<>>
                      THEN FindSkipped(result_columns_to_skip[1], i, 1)
                      ELSE <<>>
         IN  IF found # <<>>
             THEN FeedResultColumns(cols, result_columns_to_skip, i + 1,
                    [st EXCEPT !.res_col_indexes =
                         VecInsert(st.res_col_indexes, i, found[1][2])])
             ELSE FeedResultColumns(cols, result_columns_to_skip, i + 1,
                    [code |-> Append(st.code, translate_expr(cols[i + 1], st.cur_reg)),
                     translated_result_col_count |-> st.translated_result_col_count + 1,
                     res_col_indexes |-> VecInsert(st.res_col_indexes, i,
                                                   st.cur_idx_in_orderby_sorter),
                     cur_idx_in_orderby_sorter |-> st.cur_idx_in_orderby_sorter + 1,
                     cur_reg |-> st.cur_reg + 1])

order_by_sorter_insert ==
    /\ pc \in {"inited", "fed"}
    /\ feeds < MaxFeeds
    /\ LET order_by_len == Len(order_by)
           result_columns_to_skip ==
               order_by_deduplicate_result_columns(order_by, result_columns)
           result_columns_to_skip_len == OptionLen(result_columns_to_skip)
           orderby_sorter_column_count ==
               OrderbySorterColumnCount(order_by_len, Len(result_columns),
                                        result_columns_to_skip_len)
           start_reg == next_free_register
           st == FeedResultColumns(result_columns, result_columns_to_skip, 0,
                   [code |-> SortKeyInsns(order_by, start_reg),
                    translated_result_col_count |-> 0,
                    res_col_indexes |-> result_column_indexes_in_orderby_sorter,
                    cur_idx_in_orderby_sorter |-> order_by_len,
                    cur_reg |-> start_reg + order_by_len])
           dedup == IF distinctness = "Distinct"
                    THEN emit_deduplication_insns(
                           DistinctNumRegs(order_by_len, st.translated_result_col_count),
                           start_reg)
                    ELSE <<>>
       IN  /\ next_free_register' = next_free_register + orderby_sorter_column_count
           /\ result_column_indexes_in_orderby_sorter' = st.res_col_indexes
           /\ insns' = insns \o st.code \o dedup
                         \o sorter_insert(start_reg, orderby_sorter_column_count,
                                          meta_sort[1].sort_cursor,
                                          meta_sort[1].reg_sorter_data)
    /\ feeds' = feeds + 1
    /\ pc' = "fed"
    /\ result' = "Ok"
    /\ UNCHANGED <<plan_vars, labels, cursors, vm_vars, meta_sort,
                   result_columns_to_skip_in_orderby_sorter,
                   reg_result_cols_start, reg_offset, reg_limit>>

(***************************************************************************)
(* emit_order_by                                                           *)
(***************************************************************************)
\* result_row::emit_offset(program, plan, jump_to, reg_offset)
emit_offset(jump_to) ==
    IF offset > 0 THEN <<IfPos(reg_offset, jump_to, 1)>> ELSE <<>>

\* result_row::emit_result_row_and_limit(program, plan, start_reg,
\* limit_ctx, label_on_limit_reached)
emit_result_row_and_limit(start_reg, label_on_limit_reached) ==
    <<ResultRow(start_reg, Len(result_columns))>>
      \o (IF limit # <<>> THEN <<DecrJumpZero(reg_limit, label_on_limit_reached)>>
          ELSE <<>>)

\* lines 89-94
DrainSorterColumnCount(order_by_len, result_columns_len, to_skip) ==
    order_by_len + result_columns_len - OptionLen(to_skip)

\* Variant of DrainHead whose SorterSort jumps to the next label when empty.
DrainHead_EmptyToNext(pseudo_cursor, sorter_column_count, sort_loop_start_label, sort_loop_next_label, sort_loop_end_label) ==
    <<OpenPseudo(pseudo_cursor, meta_sort[1].reg_sorter_data, sorter_column_count),
      SorterSort(meta_sort[1].sort_cursor, sort_loop_next_label)>>

\* lines 104-113: OpenPseudo and SorterSort
DrainHead(pseudo_cursor, sorter_column_count, sort_loop_start_label, sort_loop_next_label, sort_loop_end_label) ==
    <<OpenPseudo(pseudo_cursor, meta_sort[1].reg_sorter_data, sorter_column_count),
      SorterSort(meta_sort[1].sort_cursor, sort_loop_end_label)>>

\* Variant of DrainColumns that reads the result columns in sorter order,
\* ignoring the mapping.
DrainColumns_SorterOrder(cursor_id, start_reg, indexes) ==
    [n \in 1..Len(result_columns) |->
        emit_column(cursor_id, Len(order_by) + (n - 1), start_reg + (n - 1))]

\* lines 128-135
DrainColumns(cursor_id, start_reg, indexes) ==
    [n \in 1..Len(result_columns) |->
        emit_column(cursor_id, indexes[n], start_reg + (n - 1))]

\* Variant of DrainBody that fetches and decodes before the OFFSET check.
DrainBody_DecodeFirst(pseudo_cursor, sort_loop_start_label, sort_loop_next_label, sort_loop_end_label) ==
    <<SorterData(meta_sort[1].sort_cursor, meta_sort[1].reg_sorter_data,
                 pseudo_cursor)>>
      \o DrainColumns(pseudo_cursor, reg_result_cols_start,
                      result_column_indexes_in_orderby_sorter)
      \o emit_offset(sort_loop_next_label)
      \o emit_result_row_and_limit(reg_result_cols_start, sort_loop_end_label)

\* Variant of DrainBody whose OFFSET check jumps back to the loop start.
DrainBody_OffsetToStart(pseudo_cursor, sort_loop_start_label, sort_loop_next_label, sort_loop_end_label) ==
    emit_offset(sort_loop_start_label)
      \o <<SorterData(meta_sort[1].sort_cursor, meta_sort[1].reg_sorter_data,
                      pseudo_cursor)>>
      \o DrainColumns(pseudo_cursor, reg_result_cols_start,
                      result_column_indexes_in_orderby_sorter)
      \o emit_result_row_and_limit(reg_result_cols_start, sort_loop_end_label)

\* lines 116-143: the loop body between the start and the next label
DrainBody(pseudo_cursor, sort_loop_start_label, sort_loop_next_label, sort_loop_end_label) ==
    emit_offset(sort_loop_next_label)
      \o <<SorterData(meta_sort[1].sort_cursor, meta_sort[1].reg_sorter_data,
                      pseudo_cursor)>>
      \o DrainColumns(pseudo_cursor, reg_result_cols_start,
                      result_column_indexes_in_orderby_sorter)
      \o emit_result_row_and_limit(reg_result_cols_start, sort_loop_end_label)

\* lines 146-149
DrainTail(sort_loop_start_label, sort_loop_next_label, sort_loop_end_label) ==
    <<SorterNext(meta_sort[1].sort_cursor, sort_loop_start_label)>>

\* The drain follows the feed (the lowering pass order is initialize, feed,
\* drain), so the mapping holds an entry for every result column.
emit_order_by ==
    /\ pc = "fed"
    /\ LET sort_loop_start_label == Len(labels) + 1
           sort_loop_next_label == Len(labels) + 2
           sort_loop_end_label == Len(labels) + 3
           sorter_column_count ==
               DrainSorterColumnCount(Len(order_by), Len(result_columns),
                                      result_columns_to_skip_in_orderby_sorter)
           pseudo_cursor == Len(cursors)
           head == DrainHead(pseudo_cursor, sorter_column_count,
                             sort_loop_start_label, sort_loop_next_label,
                             sort_loop_end_label)
           body == DrainBody(pseudo_cursor, sort_loop_start_label,
                             sort_loop_next_label, sort_loop_end_label)
           tail == DrainTail(sort_loop_start_label, sort_loop_next_label,
                             sort_loop_end_label)
           \* preassign_label_to_next_insn / resolve_label(.., program.offset())
           start_offset == Len(insns) + Len(head) + 1
           next_offset == start_offset + Len(body)
           end_offset == next_offset + Len(tail)
       IN  /\ cursors' = Append(cursors, PseudoCursor(sorter_column_count))
           /\ insns' = insns \o head \o body \o tail
           /\ labels' = labels \o <<start_offset, next_offset, end_offset>>
    /\ pc' = "drained"
    /\ result' = "Ok"
    /\ UNCHANGED <<plan_vars, feeds, next_free_register, ctx_vars, vm_vars>>

(***************************************************************************)
(* Execution of the emitted drain loop.  The sorting device holds the rows *)
(* 0 .. nrows-1 in the order it yields them.                               *)
(***************************************************************************)
RECURSIVE FirstOp(_, _, _)
FirstOp(code, op, n) ==
    IF n > Len(code) THEN 0
    ELSE IF code[n].op = op THEN n ELSE FirstOp(code, op, n + 1)

DrainStart == FirstOp(insns, "OpenPseudo", 1)
LoopStart == labels[Len(labels) - 2]
LoopNext == labels[Len(labels) - 1]
LoopEnd == labels[Len(labels)]

Running == pc = "drained" /\ vpc >= 1 /\ vpc <= Len(insns)
Current == insns[vpc]

\* Transfer of control to instruction offset target; arrivals at the loop
\* start are counted as iterations.
Goto(target) ==
    /\ vpc' = target
    /\ iterations' = IF target = LoopStart THEN iterations + 1 ELSE iterations

\* Control reaches the drain section once the scan loop has finished.
VMBegin ==
    /\ pc = "drained" /\ vpc = 0
    /\ vpc' = DrainStart
    /\ UNCHANGED <<plan_vars, pc, feeds, result, builder_vars, ctx_vars,
                   registers, sorter_row, output, fetched, decoded,
                   advances, iterations>>

ExecOpenPseudo ==
    /\ Running /\ Current.op = "OpenPseudo"
    /\ Goto(vpc + 1)
    /\ UNCHANGED <<plan_vars, pc, feeds, result, builder_vars, ctx_vars,
                   registers, sorter_row, output, fetched, decoded, advances>>

ExecSorterSort ==
    /\ Running /\ Current.op = "SorterSort"
    /\ sorter_row' = 0
    /\ IF nrows = 0 THEN Goto(labels[Current.p2]) ELSE Goto(vpc + 1)
    /\ UNCHANGED <<plan_vars, pc, feeds, result, builder_vars, ctx_vars,
                   registers, output, fetched, decoded, advances>>

ExecIfPos ==
    /\ Running /\ Current.op = "IfPos"
    /\ IF registers[Current.p1] > 0
       THEN /\ registers' = [registers EXCEPT ![Current.p1] = @ - Current.p3]
            /\ Goto(labels[Current.p2])
       ELSE /\ registers' = registers
            /\ Goto(vpc + 1)
    /\ UNCHANGED <<plan_vars, pc, feeds, result, builder_vars, ctx_vars,
                   sorter_row, output, fetched, decoded, advances>>

ExecSorterData ==
    /\ Running /\ Current.op = "SorterData"
    /\ fetched' = Append(fetched, sorter_row)
    /\ Goto(vpc + 1)
    /\ UNCHANGED <<plan_vars, pc, feeds, result, builder_vars, ctx_vars,
                   registers, sorter_row, output, decoded, advances>>

ExecColumn ==
    /\ Running /\ Current.op = "Column"
    /\ decoded' = decoded \cup {sorter_row}
    /\ Goto(vpc + 1)
    /\ UNCHANGED <<plan_vars, pc, feeds, result, builder_vars, ctx_vars,
                   registers, sorter_row, output, fetched, advances>>

ExecResultRow ==
    /\ Running /\ Current.op = "ResultRow"
    /\ output' = Append(output, sorter_row)
    /\ Goto(vpc + 1)
    /\ UNCHANGED <<plan_vars, pc, feeds, result, builder_vars, ctx_vars,
                   registers, sorter_row, fetched, decoded, advances>>

ExecDecrJumpZero ==
    /\ Running /\ Current.op = "DecrJumpZero"
    /\ registers' = [registers EXCEPT ![Current.p1] = @ - 1]
    /\ IF registers[Current.p1] - 1 = 0
       THEN Goto(labels[Current.p2]) ELSE Goto(vpc + 1)
    /\ UNCHANGED <<plan_vars, pc, feeds, result, builder_vars, ctx_vars,
                   sorter_row, output, fetched, decoded, advances>>

ExecSorterNext ==
    /\ Running /\ Current.op = "SorterNext"
    /\ advances' = advances + 1
    /\ IF sorter_row + 1 < nrows
       THEN /\ sorter_row' = sorter_row + 1
            /\ Goto(labels[Current.p2])
       ELSE /\ sorter_row' = sorter_row
            /\ Goto(vpc + 1)
    /\ UNCHANGED <<plan_vars, pc, feeds, result, builder_vars, ctx_vars,
                   registers, output, fetched, decoded>>

VMNext ==
    \/ VMBegin
    \/ ExecOpenPseudo
    \/ ExecSorterSort
    \/ ExecIfPos
    \/ ExecSorterData
    \/ ExecColumn
    \/ ExecResultRow
    \/ ExecDecrJumpZero
    \/ ExecSorterNext

(***************************************************************************)
(* Initial states and specifications                                       *)
(***************************************************************************)
SortKeysOver(exprs) == [expr : exprs, dir : SortOrder]
SeqsUpTo(S, n) == UNION {[1..m -> S] : m \in 1..n}
Limits == {<<>>} \cup {<<l>> : l \in 1..MaxLimit}

\* The translation context and program builder as the caller hands them to
\* init_order_by: LIMIT and OFFSET counters and the result registers are
\* allocated, nothing of the ORDER BY machinery exists yet.
InitWith(OrderBys, ResultColumns, Distincts, LimitSet, OffsetSet, RowCounts) ==
    /\ order_by \in OrderBys
    /\ result_columns \in ResultColumns
    /\ distinctness \in Distincts
    /\ limit \in LimitSet
    /\ offset \in OffsetSet
    /\ nrows \in RowCounts
    /\ pc = "start" /\ feeds = 0 /\ result = "Ok"
    /\ insns = <<>> /\ labels = <<>> /\ cursors = <<>>
    /\ reg_limit = 1 /\ reg_offset = 2 /\ reg_result_cols_start = 3
    /\ next_free_register = 3 + Len(result_columns)
    /\ meta_sort = <<>>
    /\ result_column_indexes_in_orderby_sorter = <<>>
    /\ result_columns_to_skip_in_orderby_sorter = <<>>
    /\ vpc = 0
    /\ registers = [r \in {reg_limit, reg_offset} |->
                      IF r = reg_limit THEN (IF limit = <<>> THEN 0 ELSE limit[1])
                      ELSE offset]
    /\ sorter_row = 0 /\ output = <<>> /\ fetched = <<>> /\ decoded = {}
    /\ advances = 0 /\ iterations = 0

\* Every ORDER BY list and result-column list within the bounds, with and
\* without DISTINCT; the plan has either no LIMIT/OFFSET or LIMIT 1 OFFSET 1.
Init ==
    /\ InitWith(SeqsUpTo(SortKeysOver(SortKeyExprs), MaxKeys),
                SeqsUpTo(ResultExprs, MaxCols),
                {"NonDistinct", "Distinct"}, {<<>>, <<1>>}, {0, 1}, {0})
    /\ (limit = <<>>) <=> (offset = 0)

Next ==
    \/ init_order_by
    \/ order_by_sorter_insert
    \/ emit_order_by

Spec == Init /\ [][Next]_vars

ExecInit ==
    InitWith(SeqsUpTo(SortKeysOver({ExprPrice}), 1),
             SeqsUpTo({ExprName, ExprPrice}, MaxCols),
             {"NonDistinct"}, Limits, 0..MaxOffset, 0..MaxRows)

ExecNext ==
    \/ init_order_by
    \/ order_by_sorter_insert
    \/ emit_order_by
    \/ VMBegin
    \/ ExecOpenPseudo
    \/ ExecSorterSort
    \/ ExecIfPos
    \/ ExecSorterData
    \/ ExecColumn
    \/ ExecResultRow
    \/ ExecDecrJumpZero
    \/ ExecSorterNext

ExecSpec == ExecInit /\ [][ExecNext]_vars

\* The engine executes one instruction after another, so a running program
\* always takes its next step.
LiveSpec == ExecInit /\ [][ExecNext]_vars /\ WF_vars(VMNext)

(***************************************************************************)
(* Properties                                                              *)
(***************************************************************************)
NumKeys == Len(order_by)
NumCols == Len(result_columns)
SetMin(S) == CHOOSE x \in S : \A y \in S : x <= y

\* The sort keys (0-based) structurally equivalent to result column i.
MatchingKeys(i) ==
    {j \in 0..(NumKeys - 1) :
        exprs_are_equivalent(order_by[j + 1].expr, result_columns[i + 1])}
SkippedCols == {i \in 0..(NumCols - 1) : MatchingKeys(i) # {}}
StoredCols == (0..(NumCols - 1)) \ SkippedCols
LayoutWidth == NumKeys + NumCols - Cardinality(SkippedCols)

OpsAt(op) == {n \in 1..Len(insns) : insns[n].op = op}
Fed == pc \in {"fed", "drained"}
Drained == pc = "drained"
Ended == pc = "drained" /\ vpc = LoopEnd

\* C1: the width the feed emitter allocates and packs, and the column count
\* the drain emitter gives the decoding view (OpenPseudo and the pseudo
\* cursor), all equal |sort keys| + |result columns| - |skipped columns|.
C1_LayoutWidthAgrees ==
    Drained =>
        /\ \A m \in OpsAt("MakeRecord") : insns[m].p2 = LayoutWidth
        /\ next_free_register = reg_result_cols_start + NumCols + 1 + feeds * LayoutWidth
        /\ \A o \in OpsAt("OpenPseudo") :
              /\ insns[o].p3 = LayoutWidth
              /\ cursors[insns[o].p1 + 1] = PseudoCursor(LayoutWidth)

\* C8: after the feed emitter has run, once or repeatedly, the mapping has
\* exactly one entry per result column and every entry is a layout index.
C8_MappingOneEntryPerColumn ==
    Fed =>
        /\ Len(result_column_indexes_in_orderby_sorter) = NumCols
        /\ \A n \in 1..Len(result_column_indexes_in_orderby_sorter) :
              result_column_indexes_in_orderby_sorter[n] \in 0..(LayoutWidth - 1)

\* The expression the feed block ending in the MakeRecord at m leaves in
\* layout position idx (the set of expressions evaluated into that register).
StoredAt(m, idx) ==
    {insns[e].expr : e \in {x \in OpsAt("Expr") :
        /\ x < m
        /\ insns[x].p1 = insns[m].p1 + idx
        /\ \A y \in OpsAt("MakeRecord") : y < m => y < x}}

\* C2: for each result column i the drain emits exactly one Column into
\* reg_result_cols_start + i, and it reads the layout position where the
\* feed stored (or found) that column's value.
C2_DrainReadsSelectOrder ==
    Drained =>
        \A i \in 0..(NumCols - 1) :
            LET cs == {c \in OpsAt("Column") : insns[c].p3 = reg_result_cols_start + i}
            IN  /\ Cardinality(cs) = 1
                /\ \A c \in cs : \A m \in OpsAt("MakeRecord") :
                      /\ insns[c].p2 \in 0..(insns[m].p2 - 1)
                      /\ StoredAt(m, insns[c].p2) = {result_columns[i + 1]}

C2_Witness ==
    /\ Drained
    /\ Cardinality(SkippedCols) = 1
    /\ NumCols = 2
    /\ result_column_indexes_in_orderby_sorter[1] > result_column_indexes_in_orderby_sorter[2]

\* C3: a result column equivalent to a sort key maps to the first such key
\* and gets no expression, register or layout slot; the other columns take
\* the slots |sort keys|, |sort keys|+1, ... in SELECT order.
C3_FirstMatchAndConsecutiveSlots ==
    Fed =>
        /\ \A i \in SkippedCols :
              result_column_indexes_in_orderby_sorter[i + 1] = SetMin(MatchingKeys(i))
        /\ \A i \in StoredCols :
              result_column_indexes_in_orderby_sorter[i + 1] =
                  NumKeys + Cardinality({s \in StoredCols : s < i})
        /\ Cardinality(OpsAt("Expr")) = feeds * (NumKeys + Cardinality(StoredCols))
        /\ \A m \in OpsAt("MakeRecord") :
              insns[m].p2 = NumKeys + Cardinality(StoredCols)
        /\ next_free_register =
              reg_result_cols_start + NumCols + 1
                + feeds * (NumKeys + Cardinality(StoredCols))

C3_Witness ==
    /\ Fed
    /\ \E i \in SkippedCols : Cardinality(MatchingKeys(i)) = 2
    /\ StoredCols # {}

FailingKey(key) ==
    \/ key.expr.kind = "Collate" /\ key.expr.name \notin RegisteredCollations
    \/ key.expr.kind = "Column"
         /\ key.expr.column >= Len(referenced_tables[key.expr.table])
FailingKeys == {k \in 1..NumKeys : FailingKey(order_by[k])}

\* C4: one collation per sort key in key order: the COLLATE name if the key
\* is COLLATE-annotated, else the column's declared collation if the key is
\* a column, else BINARY.
C4_CollationPrecedence ==
    (pc \notin {"start", "error"}) =>
        /\ insns[1].op = "SorterOpen"
        /\ Len(insns[1].collations) = NumKeys
        /\ \A k \in 1..NumKeys :
              LET e == order_by[k].expr
              IN  insns[1].collations[k] =
                    IF e.kind = "Collate" THEN <<e.name>>
                    ELSE IF e.kind = "Column"
                    THEN referenced_tables[e.table][e.column + 1]
                    ELSE <<"BINARY">>

C4_Witness ==
    /\ pc = "inited"
    /\ NumKeys = 2
    /\ order_by[1].expr = ExprPriceRtrim
    /\ order_by[2].expr = ExprPrice
    /\ insns[1].collations = << <<"RTRIM">>, <<"NOCASE">> >>

\* C7: a failing sort key at any position makes init_order_by return the
\* error of the first failing key without emitting SorterOpen; otherwise it
\* emits exactly one SorterOpen with the number of keys and their directions.
C7_InitFailsFast ==
    (pc # "start") =>
        IF FailingKeys # {}
        THEN /\ pc = "error"
             /\ result = (IF order_by[SetMin(FailingKeys)].expr.kind = "Collate"
                          THEN "UnknownCollation" ELSE "ColumnIndexOutOfBounds")
             /\ OpsAt("SorterOpen") = {}
        ELSE /\ pc # "error"
             /\ Cardinality(OpsAt("SorterOpen")) = 1
             /\ \A n \in OpsAt("SorterOpen") :
                   /\ insns[n].p2 = NumKeys
                   /\ insns[n].order = [k \in 1..NumKeys |-> order_by[k].dir]

C7_Witness ==
    /\ pc = "error"
    /\ NumKeys = 2
    /\ order_by[1].expr = ExprNameBogus
    /\ order_by[2].expr = ExprOutOfBounds
    /\ result = "UnknownCollation"
    /\ insns = <<>>

\* C9: a DISTINCT plan checks exactly the window that is packed (same start
\* register, layout-width many registers), after all evaluations and right
\* before MakeRecord / SorterInsert; other plans emit no check.
C9_DistinctWindow ==
    Fed =>
        IF distinctness = "Distinct"
        THEN /\ Cardinality(OpsAt("DistinctCheck")) = feeds
             /\ \A m \in OpsAt("MakeRecord") :
                   /\ m > LayoutWidth + 1
                   /\ insns[m - 1].op = "DistinctCheck"
                   /\ insns[m - 1].p1 = insns[m].p1
                   /\ insns[m - 1].p2 = insns[m].p2
                   /\ insns[m - 1].p2 = LayoutWidth
                   /\ insns[m + 1].op = "SorterInsert"
                   /\ \A x \in (m - 1 - LayoutWidth)..(m - 2) : insns[x].op = "Expr"
        ELSE OpsAt("DistinctCheck") = {}

C9_Witness ==
    /\ Fed
    /\ distinctness = "Distinct"
    /\ SkippedCols # {}
    /\ StoredCols # {}
    /\ OpsAt("DistinctCheck") # {}

\* The rows lo, lo+1, ..., hi-1 in the order the sorting device yields them.
RowRange(lo, hi) == [k \in 1..(hi - lo) |-> lo + k - 1]
LastRow == IF limit = <<>> THEN nrows ELSE Min(nrows, offset + limit[1])

\* C5: the drain outputs exactly rows offset .. min(nrows, offset+limit)-1
\* in sorter order; the first offset rows are neither fetched nor decoded.
C5_OffsetBeforeLimit ==
    Drained =>
        /\ \A n \in 1..Len(fetched) : fetched[n] >= offset
        /\ \A r \in decoded : r >= offset
        /\ Ended =>
              /\ output = RowRange(offset, LastRow)
              /\ fetched = output
              /\ decoded = {output[n] : n \in 1..Len(output)}

C5_Witness ==
    /\ Ended
    /\ nrows = 5 /\ offset = 2 /\ limit = <<1>>
    /\ output = <<2>>
    /\ advances = 2

\* C6: an empty sorter sends SorterSort to the end label, which follows
\* SorterNext; nothing is fetched, decoded, output or advanced.
C6_EmptyShortcut ==
    (Drained /\ nrows = 0) =>
        /\ fetched = <<>> /\ decoded = {} /\ output = <<>> /\ advances = 0
        /\ insns[LoopEnd - 1].op = "SorterNext"
        /\ vpc > DrainStart + 1 => vpc = LoopEnd

C6_Witness ==
    /\ Ended /\ nrows = 0 /\ offset > 0 /\ limit # <<>>
    /\ iterations = 0

\* C10: the drain loop reaches its end label; the device is advanced and the
\* body entered at most once per row, with one SorterNext between entries.
C10_DrainTerminates ==
    /\ [](Drained =>
             /\ advances <= nrows
             /\ iterations <= nrows
             /\ advances <= iterations
             /\ iterations <= advances + 1)
    /\ (Drained ~> Ended)

C10_Witness ==
    /\ Ended
    /\ nrows = MaxRows /\ offset = MaxOffset /\ limit = <<>>
    /\ advances = nrows /\ iterations = nrows

====
